---- MODULE Spec2Model ----
(***************************************************************************)
(* Model of aws/resource_aws_sns_application.go: the aws_sns_application   *)
(* resource (Create / Read / Update / Delete, the passthrough importer and *)
(* the CustomizeDiff validation).                                          *)
(*                                                                         *)
(* Strings that are parsed (resource ids, ARNs) are sequences of tokens:   *)
(* the delimiters ":" and "/" are tokens of their own and every other      *)
(* token is a non-empty delimiter-free piece of text.  Attribute values    *)
(* are TLA+ strings; "" is the zero value of schema.TypeString.            *)
(*                                                                         *)
(* The handlers read and write a schema.ResourceData d, modelled as the    *)
(* record [id, state, diff, set]: the prior state's attributes, the        *)
(* planned diff and the values written with d.Set.  A field with a         *)
(* StateFunc has two values in the diff: the one the handler reads (the    *)
(* configured value) and the one that goes to the state (its hashSum).     *)
(*                                                                         *)
(* A step of the resource is one handler invocation, with every call it    *)
(* makes (Create calls Update, Update calls Read); the step ends with the  *)
(* handler's return, and Save is the framework storing the state that the  *)
(* invocation left, the only thing that can happen after a return.         *)
(***************************************************************************)
EXTENDS Naturals, Sequences, FiniteSets, TLC

---------------------------------------------------------------------------
(* Bounds of the model *)

\* longest resource path, in "/"-separated segments, of an imported id
MaxSegs == 4
\* most attributes in one GetPlatformApplicationAttributes response
MaxRemoteAttrs == 1
\* most fields in the diff that one Update applies
MaxChanges == 1

---------------------------------------------------------------------------
(* Fixed tables of the source *)

\* a table that leaves APNS_SANDBOX out
snsPlatformRequiresOnlyApns == [p \in {"APNS"} |-> TRUE]

snsPlatformRequiresPlatformPrincipal ==
  [p \in {"APNS", "APNS_SANDBOX"} |-> TRUE]

SNSPlatformAppAttributeMap ==
  ( "event_delivery_failure_topic_arn" :> "EventDeliveryFailure"
 @@ "event_endpoint_created_topic_arn" :> "EventEndpointCreated"
 @@ "event_endpoint_deleted_topic_arn" :> "EventEndpointDeleted"
 @@ "event_endpoint_updated_topic_arn" :> "EventEndpointUpdated"
 @@ "failure_feedback_role_arn" :> "FailureFeedbackRoleArn"
 @@ "platform_principal" :> "PlatformPrincipal"
 @@ "success_feedback_role_arn" :> "SuccessFeedbackRoleArn"
 @@ "success_feedback_sample_rate" :> "SuccessFeedbackSampleRate" )

\* the keys of resourceAwsSnsApplication().Schema
SchemaFields ==
  { "name", "platform", "platform_credential", "arn",
    "event_delivery_failure_topic_arn", "event_endpoint_created_topic_arn",
    "event_endpoint_deleted_topic_arn", "event_endpoint_updated_topic_arn",
    "failure_feedback_role_arn", "platform_principal",
    "success_feedback_role_arn", "success_feedback_sample_rate" }

\* Computed: true
ComputedFields == {"arn"}

\* Required: true
RequiredFields == {"name", "platform", "platform_credential"}

\* ForceNew: true
ForceNewFields == {"name", "platform"}

\* StateFunc: hashSum
StateFuncFields == {"platform_credential", "platform_principal"}

\* the delivery-feedback fields: the Optional fields without a StateFunc
FeedbackFields == (SchemaFields \ (RequiredFields \cup ComputedFields)) \ StateFuncFields

EmptyMap == [k \in {} |-> ""]

\* func hashSum: "%x" of the SHA-256 digest, an injective rendering that is
\* never the empty string and never the text it was computed from
hashSum(contents) == "sha256(" \o contents \o ")"

---------------------------------------------------------------------------
(* Token strings: strings.Split, arn.Parse, arn.String *)

\* the text of a token string
RECURSIVE Str(_)
Str(s) == IF s = <<>> THEN "" ELSE Head(s) \o Str(Tail(s))

\* index of the first occurrence of sep in s, 0 when there is none
RECURSIVE IndexFrom(_, _, _)
IndexFrom(s, sep, i) ==
  IF i > Len(s) THEN 0
  ELSE IF s[i] = sep THEN i ELSE IndexFrom(s, sep, i + 1)

\* strings.SplitN(s, sep, n) for n > 0: at most n pieces, the last one the
\* unsplit remainder
RECURSIVE SplitN(_, _, _)
SplitN(s, sep, n) ==
  LET i == IndexFrom(s, sep, 1) IN
  IF n <= 1 \/ i = 0 THEN <<s>>
  ELSE <<SubSeq(s, 1, i - 1)>> \o SplitN(SubSeq(s, i + 1, Len(s)), sep, n - 1)

\* a split that stops at the third piece
SplitThree(s, sep) == SplitN(s, sep, 3)

\* strings.Split(s, sep): every piece
Split(s, sep) == SplitN(s, sep, Len(s) + 1)

\* arn.String(): the six sections joined by ":"
ArnString(a) ==
  <<"arn", ":">> \o a.Partition \o <<":">> \o a.Service \o <<":">> \o a.Region
    \o <<":">> \o a.AccountID \o <<":">> \o a.Resource

ZeroArn == [Partition |-> <<>>, Service |-> <<>>, Region |-> <<>>,
            AccountID |-> <<>>, Resource |-> <<>>]

\* arn.Parse: the prefix "arn:" and six ":"-separated sections, the sixth
\* taking the rest of the string
ArnParse(s) ==
  LET hasPrefix == Len(s) >= 2 /\ s[1] = "arn" /\ s[2] = ":"
      sections == SplitN(s, ":", 6)
  IN IF ~hasPrefix \/ Len(sections) # 6
       THEN [ok |-> FALSE, arn |-> ZeroArn]
       ELSE [ok |-> TRUE,
             arn |-> [Partition |-> sections[2], Service |-> sections[3],
                      Region |-> sections[4], AccountID |-> sections[5],
                      Resource |-> sections[6]]]

---------------------------------------------------------------------------
(* schema.ResourceData as the handlers use it *)

\* the attributes of a resource that has no state yet
NoState == [k \in SchemaFields |-> ""]

\* the new value of field k that a configuration plans: what diffString
\* compares with the state (the StateFunc applied to a configured value)
Planned(c, k) ==
  IF k \notin DOMAIN c THEN ""
  ELSE IF k \in StateFuncFields THEN hashSum(c[k]) ELSE c[k]

\* schemaMap.Diff: one entry per configurable field whose planned value
\* differs from the state; New goes to the state, Value (the NewExtra of a
\* StateFunc field) is what the handler reads
Diff(st, c) ==
  [k \in {f \in SchemaFields \ ComputedFields : Planned(c, f) # st[f]} |->
     [New |-> Planned(c, k), Value |-> IF k \in DOMAIN c THEN c[k] ELSE ""]]

\* a diff of a ForceNew field replaces the resource: the diff is computed
\* again against no state
RequiresNew(st, c) == \E k \in ForceNewFields : k \in DOMAIN Diff(st, c)

NewData(i, st, df) == [id |-> i, state |-> st, diff |-> df, set |-> EmptyMap]

\* the old side of d.GetChange
GetState(d, k) == d.state[k]

\* the new side of d.GetChange
GetNew(d, k) == IF k \in DOMAIN d.diff THEN d.diff[k].Value ELSE d.state[k]

\* d.Get
Get(d, k) == IF k \in DOMAIN d.set THEN d.set[k] ELSE GetNew(d, k)

\* the ok of d.GetOk: set to a value that is not the zero value
GetOk(d, k) == Get(d, k) # ""

\* a change test that is always true
HasChangeAlways(d, k) == TRUE

\* d.HasChange
HasChange(d, k) == GetState(d, k) # GetNew(d, k)

\* d.Set
Set(d, k, v) == [d EXCEPT !.set = (k :> v) @@ d.set]

\* d.State(): per field the value written with d.Set, else the diff's New,
\* else the prior state
StateOf(d) ==
  [k \in SchemaFields |->
     IF k \in DOMAIN d.set THEN d.set[k]
     ELSE IF k \in DOMAIN d.diff THEN d.diff[k].New
     ELSE d.state[k]]

---------------------------------------------------------------------------
(* The remote service: every call succeeds or fails, and the attribute map  *)
(* of a successful GetPlatformApplicationAttributes is any map within the   *)
(* bounds                                                                   *)

Names == {"app1"}
Platforms == {"APNS", "APNS_SANDBOX", "GCM"}
Credentials == {"c1", "c2"}
Principals == {"", "p1", "p2"}

\* attribute names the service returns: three mapped ones, the credential
\* and one informational attribute that has no local field
RemoteKeys ==
  {"PlatformPrincipal", "SuccessFeedbackSampleRate", "EventDeliveryFailure",
   "PlatformCredential", "Enabled"}

\* the value the service returns for an attribute
RemoteValue(key) ==
  CASE key = "PlatformPrincipal" -> "p1"
    [] key = "PlatformCredential" -> "c1"
    [] key = "SuccessFeedbackSampleRate" -> "50"
    [] key = "EventDeliveryFailure" -> "arn:t1"
    [] OTHER -> "true"

RemoteMaps ==
  {[key \in K |-> RemoteValue(key)] :
     K \in {S \in SUBSET RemoteKeys : Cardinality(S) <= MaxRemoteAttrs}}

GetOutcomes ==
  {[ok |-> FALSE, attrs |-> EmptyMap]}
    \cup {[ok |-> TRUE, attrs |-> m] : m \in RemoteMaps}

\* the PlatformApplicationArn the service mints for a created application
CreatedArn(platform, name) ==
  <<"arn", ":", "aws", ":", "sns", ":", "us-east-1", ":", "123456789012", ":",
    "app", "/", platform, "/", name>>

Call(api, arn, attrs, ok) == [api |-> api, arn |-> arn, attrs |-> attrs, ok |-> ok]

Result(d, calls, err) == [d |-> d, calls |-> calls, err |-> err]

---------------------------------------------------------------------------
(* The handlers *)

\* func validateAwsSnsPlatformApplication
validateAwsSnsPlatformApplication(d) ==
  LET platform == Get(d, "platform") IN
  IF platform \in DOMAIN snsPlatformRequiresPlatformPrincipal
       /\ snsPlatformRequiresPlatformPrincipal[platform]
    THEN IF GetOk(d, "platform_principal")
           THEN IF Get(d, "platform_principal") = ""
                  THEN "EmptyPrincipalError"
                  ELSE "none"
           ELSE "MissingPrincipalError"
    ELSE "none"

\* the loop of Read over SNSPlatformAppAttributeMap: every mapped field that
\* is in the schema and whose remote name is in the response is d.Set
RECURSIVE SetFetched(_, _, _)
SetFetched(d, attrmap, todo) ==
  IF todo = {} THEN d
  ELSE LET iKey == CHOOSE k \in todo : TRUE
           oKey == SNSPlatformAppAttributeMap[iKey]
           d1 == IF oKey \in DOMAIN attrmap /\ iKey \in SchemaFields
                   THEN Set(d, iKey, attrmap[oKey])
                   ELSE d
       IN SetFetched(d1, attrmap, todo \ {iKey})

\* func resourceAwsSnsApplicationRead
resourceAwsSnsApplicationRead(d, get) ==
  LET parsed == ArnParse(d.id)
      parts == Split(parsed.arn.Resource, "/")
  IN IF ~parsed.ok
       THEN Result(d, <<>>, "MalformedIdentifierError")
     ELSE IF Len(parts) # 3 \/ parts[1] # <<"app">>
       THEN Result(d, <<>>, "MalformedIdentifierError")
     ELSE
       LET arnText == ArnString(parsed.arn)
           d1 == Set(Set(Set(d, "arn", Str(arnText)), "name", Str(parts[3])),
                     "platform", Str(parts[2]))
           call == Call("GetPlatformApplicationAttributes", arnText, EmptyMap, get.ok)
       IN IF ~get.ok
            THEN Result(d1, <<call>>, "FetchError")
            ELSE Result(SetFetched(d1, get.attrs, DOMAIN SNSPlatformAppAttributeMap),
                        <<call>>, "none")

\* the attributes of the SetPlatformApplicationAttributes request of Update
UpdateAttributes(d) ==
  LET changed == {k \in SchemaFields \cap DOMAIN SNSPlatformAppAttributeMap :
                    HasChange(d, k)}
      mapped == [a \in {SNSPlatformAppAttributeMap[k] : k \in changed} |->
                   GetNew(d, CHOOSE k \in changed : SNSPlatformAppAttributeMap[k] = a)]
      principal == IF GetOk(d, "platform_principal")
                     THEN "PlatformPrincipal" :> Get(d, "platform_principal")
                     ELSE EmptyMap
      credential == IF HasChange(d, "platform_credential")
                      THEN ("PlatformCredential" :> Get(d, "platform_credential"))
                             @@ principal
                      ELSE EmptyMap
  IN credential @@ mapped

\* an Update that repeats its SetPlatformApplicationAttributes call
resourceAwsSnsApplicationUpdateTwice(d, setOk, get) ==
  LET call == Call("SetPlatformApplicationAttributes", d.id, UpdateAttributes(d), setOk)
  IN IF ~setOk
       THEN Result(d, <<call, call>>, "UpdateError")
       ELSE LET r == resourceAwsSnsApplicationRead(d, get)
            IN Result(r.d, <<call, call>> \o r.calls, r.err)

\* func resourceAwsSnsApplicationUpdate
resourceAwsSnsApplicationUpdate(d, setOk, get) ==
  LET call == Call("SetPlatformApplicationAttributes", d.id, UpdateAttributes(d), setOk)
  IN IF ~setOk
       THEN Result(d, <<call>>, "UpdateError")
       ELSE LET r == resourceAwsSnsApplicationRead(d, get)
            IN Result(r.d, <<call>> \o r.calls, r.err)

\* the attributes of the CreatePlatformApplication request of Create
CreateAttributes(d) ==
  ("PlatformCredential" :> Get(d, "platform_credential"))
    @@ (IF GetOk(d, "platform_principal")
          THEN "PlatformPrincipal" :> Get(d, "platform_principal")
          ELSE EmptyMap)

\* func resourceAwsSnsApplicationCreate
resourceAwsSnsApplicationCreate(d, createOk, setOk, get) ==
  LET call == Call("CreatePlatformApplication", <<>>, CreateAttributes(d), createOk)
  IN IF ~createOk
       THEN Result(d, <<call>>, "CreateError")
       ELSE LET d1 == [d EXCEPT !.id = CreatedArn(Get(d, "platform"), Get(d, "name"))]
                r == resourceAwsSnsApplicationUpdate(d1, setOk, get)
            IN Result(r.d, <<call>> \o r.calls, r.err)

\* func resourceAwsSnsApplicationDelete
resourceAwsSnsApplicationDelete(d, deleteOk) ==
  Result(d, <<Call("DeletePlatformApplication", d.id, EmptyMap, deleteOk)>>,
         IF deleteOk THEN "none" ELSE "DeleteError")

---------------------------------------------------------------------------
(* Inputs: configurations and imported ids *)

\* the fields the configurations of the model set, and their values
FieldValues ==
  ( "name" :> Names
 @@ "platform" :> Platforms
 @@ "platform_credential" :> Credentials
 @@ "platform_principal" :> Principals
 @@ "success_feedback_sample_rate" :> {"50", "100"}
 @@ "event_delivery_failure_topic_arn" :> {"arn:t1"} )

\* the ways a configuration sets, or does not set, an Optional field
Optional(k) == {EmptyMap} \cup {k :> v : v \in FieldValues[k]}

\* a configuration is a map from the fields it sets to their values; it sets
\* every Required field
Configs ==
  {[name |-> n, platform |-> p, platform_credential |-> c] @@ pr @@ sr @@ ev :
     n \in FieldValues["name"], p \in FieldValues["platform"],
     c \in FieldValues["platform_credential"],
     pr \in Optional("platform_principal"),
     sr \in Optional("success_feedback_sample_rate"),
     ev \in Optional("event_delivery_failure_topic_arn")}

\* s1/s2/.../sn
RECURSIVE JoinSegs(_)
JoinSegs(segs) ==
  IF Len(segs) = 1 THEN segs[1]
  ELSE segs[1] \o <<"/">> \o JoinSegs(Tail(segs))

\* resource paths of one to MaxSegs segments
ResourcePaths ==
  {JoinSegs(segs) :
     segs \in UNION {{f \in [1..n -> {<<"app">>, <<"invalid">>, <<"GCM">>, <<"app1">>}] :
                        /\ f[1] \in {<<"app">>, <<"invalid">>}
                        /\ \A i \in 2..n : f[i] \in {<<"GCM">>, <<"app1">>}} :
                     n \in 1..MaxSegs}}

ArnPrefix == <<"arn", ":", "aws", ":", "sns", ":", "us-east-1", ":", "123456789012", ":">>

\* ids given to terraform import: ARNs with each resource path, with an
\* empty path and with an empty segment, and strings that are no ARN (no
\* "arn:" prefix, fewer than six sections)
IdPool ==
  {ArnPrefix \o r : r \in ResourcePaths}
    \cup { ArnPrefix,
           ArnPrefix \o <<"app", "/", "/", "app1">>,
           <<"app", "/", "GCM", "/", "app1">>,
           <<"arn", ":", "aws", ":", "sns", ":", "app", "/", "GCM", "/", "app1">> }

---------------------------------------------------------------------------
(* State *)

VARIABLES
  id,     \* the id of the resource in the saved state, <<>> when there is none
  state,  \* the attributes of the saved state
  tainted, \* the saved resource is tainted: its Create returned an error
  pc,     \* "idle", or "returned": a handler returned and the state is not yet saved
  op,     \* the step that returned
  cfg,    \* the configuration it was given
  d,      \* its ResourceData, as the handler left it
  calls,  \* the remote calls it made, in order
  err,    \* the error it returned
  verr    \* the result of CustomizeDiff, "notrun" when it did not run

vars == <<id, state, tainted, pc, op, cfg, d, calls, err, verr>>

NoData == NewData(<<>>, NoState, EmptyMap)

Init ==
  /\ id = <<>>
  /\ state = NoState
  /\ tainted = FALSE
  /\ pc = "idle"
  /\ op = "none"
  /\ cfg = EmptyMap
  /\ d = NoData
  /\ calls = <<>>
  /\ err = "none"
  /\ verr = "notrun"

\* the ResourceDiff that CustomizeDiff is given for configuration c: the
\* diff against the state, or against no state when the resource is new or
\* is replaced
PlanData(c) ==
  IF id = <<>> \/ tainted \/ RequiresNew(state, c)
    THEN NewData(<<>>, NoState, Diff(NoState, c))
    ELSE NewData(id, state, Diff(state, c))

\* a resource without CustomizeDiff
CustomizeDiffMissing(c) == "none"

\* CustomizeDiff: func(diff, v) { return validateAwsSnsPlatformApplication(diff) }
CustomizeDiff(c) == validateAwsSnsPlatformApplication(PlanData(c))

Returned(o, c, r, v) ==
  /\ pc' = "returned"
  /\ op' = o
  /\ cfg' = c
  /\ d' = r.d
  /\ calls' = r.calls
  /\ err' = r.err
  /\ verr' = v
  /\ UNCHANGED <<id, state, tainted>>

\* terraform plan of configuration c: the diff is computed and CustomizeDiff
\* validates it
Plan(c) ==
  /\ pc = "idle"
  /\ id # <<>> => Cardinality(DOMAIN Diff(state, c)) <= MaxChanges
  /\ Returned("Plan", c, Result(PlanData(c), <<>>, "none"), CustomizeDiff(c))

\* terraform apply of configuration c to a resource that has no state
Create(c) ==
  /\ pc = "idle"
  /\ id = <<>>
  /\ CustomizeDiff(c) = "none"
  /\ \E createOk \in BOOLEAN, setOk \in BOOLEAN, get \in GetOutcomes :
       Returned("Create", c,
                resourceAwsSnsApplicationCreate(
                  NewData(<<>>, NoState, Diff(NoState, c)), createOk, setOk, get),
                "none")

\* terraform apply of configuration c whose diff is not empty and replaces
\* nothing (a tainted resource is replaced)
Update(c) ==
  /\ pc = "idle"
  /\ id # <<>>
  /\ ~tainted
  /\ ~RequiresNew(state, c)
  /\ Cardinality(DOMAIN Diff(state, c)) \in 1..MaxChanges
  /\ CustomizeDiff(c) = "none"
  /\ \E setOk \in BOOLEAN, get \in GetOutcomes :
       Returned("Update", c,
                resourceAwsSnsApplicationUpdate(
                  NewData(id, state, Diff(state, c)), setOk, get),
                "none")

\* terraform refresh
Refresh ==
  /\ pc = "idle"
  /\ id # <<>>
  /\ \E get \in GetOutcomes :
       Returned("Read", EmptyMap,
                resourceAwsSnsApplicationRead(NewData(id, state, EmptyMap), get),
                "notrun")

\* terraform import of id i: schema.ImportStatePassthrough keeps the id and
\* Read fills the state in
Import(i) ==
  /\ pc = "idle"
  /\ id = <<>>
  /\ \E get \in GetOutcomes :
       Returned("Import", EmptyMap,
                resourceAwsSnsApplicationRead(NewData(i, NoState, EmptyMap), get),
                "notrun")

\* terraform destroy, or the first half of a replacement
Delete ==
  /\ pc = "idle"
  /\ id # <<>>
  /\ \E deleteOk \in BOOLEAN :
       Returned("Delete", EmptyMap,
                resourceAwsSnsApplicationDelete(NewData(id, state, EmptyMap), deleteOk),
                "notrun")

\* what the framework saves after the step returned.  Create and Update:
\* d.State() whether or not the handler returned an error, unless no id was
\* set.  Read: d.State() when it returned no error.  Delete: the state is
\* removed when it returned no error.  A resource whose Create set an id and
\* returned an error is saved tainted.
SavedId ==
  CASE op \in {"Create", "Update"} -> d.id
    [] op = "Import" -> IF err = "none" THEN d.id ELSE <<>>
    [] op = "Delete" -> IF err = "none" THEN <<>> ELSE id
    [] OTHER -> id

SavedState ==
  CASE op \in {"Create", "Update"} -> IF d.id = <<>> THEN NoState ELSE StateOf(d)
    [] op \in {"Read", "Import"} -> IF err = "none" THEN StateOf(d) ELSE state
    [] op = "Delete" -> IF err = "none" THEN NoState ELSE state
    [] OTHER -> state

SavedTainted ==
  CASE op = "Create" -> d.id # <<>> /\ err # "none"
    [] op = "Delete" -> err # "none" /\ tainted
    [] OTHER -> tainted

Save ==
  /\ pc = "returned"
  /\ id' = SavedId
  /\ state' = SavedState
  /\ tainted' = SavedTainted
  /\ pc' = "idle"
  /\ op' = "none"
  /\ cfg' = EmptyMap
  /\ d' = NoData
  /\ calls' = <<>>
  /\ err' = "none"
  /\ verr' = "notrun"

Next ==
  \/ \E c \in Configs : Plan(c)
  \/ \E c \in Configs : Create(c)
  \/ \E c \in Configs : Update(c)
  \/ Refresh
  \/ \E i \in IdPool : Import(i)
  \/ Delete
  \/ Save

Spec == Init /\ [][Next]_vars

---------------------------------------------------------------------------
(* Vocabulary of the properties *)

\* the value configuration c gives field k, "" when it gives none
ConfigValue(c, k) == IF k \in DOMAIN c THEN c[k] ELSE ""

PrincipalAbsent(c) == "platform_principal" \notin DOMAIN c
PrincipalEmpty(c) == "platform_principal" \in DOMAIN c /\ c["platform_principal"] = ""
PrincipalNonEmpty(c) == "platform_principal" \in DOMAIN c /\ c["platform_principal"] # ""

InRequiredSet(c) == c["platform"] \in {"APNS", "APNS_SANDBOX"}

\* a handler returned from a stand-alone Update
UpdateReturned == pc = "returned" /\ op = "Update"

\* the attributes of the SetPlatformApplicationAttributes request of the step
SentAttributes == calls[1].attrs

\* the secret field k of the configuration is the one the state holds
SecretUnchanged(k) ==
  \/ ConfigValue(cfg, k) = state[k]
  \/ k \in DOMAIN cfg /\ hashSum(cfg[k]) = state[k]

Mutating == {"CreatePlatformApplication", "SetPlatformApplicationAttributes",
             "DeletePlatformApplication"}

MutatingCalls == {i \in 1..Len(calls) : calls[i].api \in Mutating}

\* the ":"-positions of an id, and its resource path: what follows the
\* fifth ":" of an id that starts with "arn:"
Colons(i) == {j \in 1..Len(i) : i[j] = ":"}
IsArn(i) == Len(i) >= 2 /\ i[1] = "arn" /\ i[2] = ":" /\ Cardinality(Colons(i)) >= 5
PathOf(i) ==
  SubSeq(i, 1 + (CHOOSE j \in Colons(i) : Cardinality({k \in Colons(i) : k < j}) = 4),
         Len(i))
AppPath(i) ==
  /\ IsArn(i)
  /\ Cardinality({j \in 1..Len(PathOf(i)) : PathOf(i)[j] = "/"}) = 2
  /\ Len(PathOf(i)) >= 2 /\ PathOf(i)[1] = "app" /\ PathOf(i)[2] = "/"

\* arn:P:sns:R:A:app/PLATFORM/NAME
AppArnForm(i) ==
  /\ Len(i) = 15
  /\ \A j \in {2, 4, 6, 8, 10} : i[j] = ":"
  /\ \A j \in {12, 14} : i[j] = "/"
  /\ \A j \in {3, 7, 9, 13, 15} : i[j] \notin {":", "/"}
  /\ i[1] = "arn" /\ i[5] = "sns" /\ i[11] = "app"

ReadReturned == pc = "returned" /\ op \in {"Read", "Import"}

---------------------------------------------------------------------------
(* Properties *)

\* C1: for a platform in {APNS, APNS_SANDBOX} validation fails when
\* platform_principal is absent or empty and succeeds when it is a non-empty
\* string; for every other platform it succeeds whatever platform_principal is.
C1_ValidateRequiresPrincipal ==
  (pc = "returned" /\ op = "Plan") =>
     (verr = "none" <=> (InRequiredSet(cfg) => PrincipalNonEmpty(cfg)))

C1_Witness ==
  /\ pc = "returned" /\ op = "Plan"
  /\ cfg["platform"] = "APNS_SANDBOX" /\ PrincipalEmpty(cfg)
  /\ verr # "none"

\* C2: Read of an id arn:P:sns:R:A:app/PLATFORM/NAME sets platform to
\* PLATFORM and name to NAME; Read of an id whose resource path is not three
\* "/"-segments starting with "app" fails with the malformed-identifier
\* error and makes no GetPlatformApplicationAttributes call.
C2_ReadParsesId ==
  ReadReturned =>
    /\ AppArnForm(d.id) =>
         /\ {"platform", "name"} \subseteq DOMAIN d.set
         /\ d.set["platform"] = d.id[13]
         /\ d.set["name"] = d.id[15]
    /\ ~AppPath(d.id) => (err = "MalformedIdentifierError" /\ calls = <<>>)

C2_Witness ==
  /\ ReadReturned
  /\ d.id = ArnPrefix \o <<"invalid", "/", "GCM", "/", "app1">>
  /\ err = "MalformedIdentifierError" /\ calls = <<>>

\* C3 (as claimed): an Update whose platform_credential changed sends
\* PlatformCredential with the new credential and, when a principal is
\* set, PlatformPrincipal with the principal's value.
C3_Claim ==
  (UpdateReturned /\ ~SecretUnchanged("platform_credential")) =>
     /\ "PlatformCredential" \in DOMAIN SentAttributes
     /\ SentAttributes["PlatformCredential"] = cfg["platform_credential"]
     /\ PrincipalNonEmpty(cfg) =>
          /\ "PlatformPrincipal" \in DOMAIN SentAttributes
          /\ SentAttributes["PlatformPrincipal"] = cfg["platform_principal"]

\* C4: an Update whose platform_credential and platform_principal are
\* unchanged sends exactly one attribute per delivery-feedback field whose
\* configured value differs from the prior one, under the field's remote name
\* and with the new value.
C4_FeedbackOnly ==
  (UpdateReturned /\ SecretUnchanged("platform_credential")
                  /\ SecretUnchanged("platform_principal")) =>
     LET differs == {k \in FeedbackFields : ConfigValue(cfg, k) # state[k]}
     IN /\ DOMAIN SentAttributes = {SNSPlatformAppAttributeMap[k] : k \in differs}
        /\ \A k \in differs :
             SentAttributes[SNSPlatformAppAttributeMap[k]] = ConfigValue(cfg, k)

C4_Witness ==
  /\ UpdateReturned
  /\ state["success_feedback_sample_rate"] = "50"
  /\ SecretUnchanged("platform_credential") /\ SecretUnchanged("platform_principal")
  /\ SentAttributes = [SuccessFeedbackSampleRate |-> "100"]

\* C5 (as claimed): when the SetPlatformApplicationAttributes call of Update
\* fails, Update returns the update error, no Read is made and the local
\* state is what it was before Update.
C5_Claim ==
  (UpdateReturned /\ ~calls[1].ok) =>
     /\ err = "UpdateError"
     /\ Len(calls) = 1
     /\ SavedId = id
     /\ SavedState = state

\* C6 (as claimed): the local state never holds a raw platform_credential or
\* platform_principal: each is unset or a content hash.
C6_Claim ==
  /\ state["platform_credential"] \in {""} \cup {hashSum(c) : c \in Credentials}
  /\ state["platform_principal"] \in {""} \cup {hashSum(p) : p \in Principals}

\* C7 (as claimed): every invocation makes at most one remote mutating call,
\* so none fails after one of its mutations succeeded.
C7_Claim ==
  pc = "returned" =>
    /\ Cardinality(MutatingCalls) <= 1
    /\ err # "none" => \A i \in MutatingCalls : ~calls[i].ok

\* C7 (amended): Read, Update and Delete make at most one remote mutating
\* call; Create makes at most two, CreatePlatformApplication and then, when
\* that succeeded, the SetPlatformApplicationAttributes of Update.
C7_Amended ==
  pc = "returned" =>
    /\ op # "Create" => Cardinality(MutatingCalls) <= 1
    /\ op \in {"Read", "Import", "Plan"} => MutatingCalls = {}
    /\ op = "Create" =>
         /\ Cardinality(MutatingCalls) <= 2
         /\ calls[1].api = "CreatePlatformApplication"
         /\ \A i \in MutatingCalls \ {1} :
              calls[1].ok /\ i = 2 /\ calls[i].api = "SetPlatformApplicationAttributes"

\* Create failed in Update after its CreatePlatformApplication succeeded
C7_Witness ==
  /\ pc = "returned" /\ op = "Create"
  /\ calls[1].ok /\ Cardinality(MutatingCalls) = 2
  /\ err = "UpdateError"

\* C8 (as claimed): for a platform in {APNS, APNS_SANDBOX} validation fails
\* with MissingPrincipalError when platform_principal is absent and with
\* EmptyPrincipalError when it is the empty string.
C8_Claim ==
  (pc = "returned" /\ op = "Plan" /\ InRequiredSet(cfg)) =>
     /\ PrincipalAbsent(cfg) => verr = "MissingPrincipalError"
     /\ PrincipalEmpty(cfg) => verr = "EmptyPrincipalError"

\* C9: no CreatePlatformApplication and no SetPlatformApplicationAttributes
\* call is made for a configuration that validation rejects.
C9_NoCallWhenRejected ==
  pc = "returned" =>
    /\ (op = "Plan" /\ verr # "none") => calls = <<>>
    /\ (op \in {"Create", "Update"} /\ MutatingCalls # {}) =>
         (InRequiredSet(cfg) => PrincipalNonEmpty(cfg))

C9_Witness ==
  /\ pc = "returned" /\ op = "Plan" /\ id = <<>>
  /\ cfg = [name |-> "app1", platform |-> "APNS", platform_credential |-> "c1"]
  /\ verr = "MissingPrincipalError"
  /\ calls = <<>>

\* C10 (as claimed): the request of an Update holds PlatformPrincipal only
\* if it holds PlatformCredential.
C10_Claim ==
  UpdateReturned =>
    ("PlatformPrincipal" \in DOMAIN SentAttributes
       => "PlatformCredential" \in DOMAIN SentAttributes)

====
